---- MODULE Spec2Model ----
(***************************************************************************)
(* Model of src/plugin.py: the pipe protocol of the Visual plugin.         *)
(*                                                                         *)
(* main() reads a command with read_command(), walks its tool_calls,       *)
(* calls one handler per tool call and writes each handler's response with *)
(* write_response(), until a 'shutdown' tool call makes it return.         *)
(*                                                                         *)
(* Text is modelled as a sequence of characters and the pipe as a sequence *)
(* of bytes.  One model character stands for one lexical piece of the real *)
(* text (a brace, a quote, a run of letters such as tool_calls); every     *)
(* such ASCII character is one byte.  The character E_ACUTE is a non-ASCII *)
(* character and takes two bytes in UTF-8.  BUFFER_SIZE is scaled down     *)
(* accordingly (4096 in the source).                                       *)
(***************************************************************************)
EXTENDS Integers, Sequences, FiniteSets, TLC

\* ------------------------------------------------------------------ bounds
\* Chunk capacity of one ReadFile call, scaled (src/plugin.py:50 has 4096).
BUFFER_SIZE == 3
\* Most host messages whose bytes one read cycle may take in before the host
\* ends the cycle with a short chunk or the read fails.
MaxSpan == 2
\* Most load_config calls counted while one command is processed.
MaxLoads == 2

\* -------------------------------------------------------------- characters
QUOTE == "\""
NUL == "NUL"
E_ACUTE == "e_acute"
\* The two bytes of E_ACUTE in UTF-8.
LEAD == "C3"
CONT == "A9"

\* bytes(BUFFER_SIZE): a buffer of n zero bytes.
RECURSIVE Zeros(_)
Zeros(n) == IF n <= 0 THEN <<>> ELSE <<NUL>> \o Zeros(n - 1)

\* str.encode('utf-8')
RECURSIVE utf8_encode(_)
utf8_encode(s) ==
  IF s = <<>> THEN <<>>
  ELSE (IF Head(s) = E_ACUTE THEN <<LEAD, CONT>> ELSE <<Head(s)>>)
       \o utf8_encode(Tail(s))

\* bytes.decode('utf-8'): ok = FALSE stands for UnicodeDecodeError.
RECURSIVE utf8_decode_from(_, _, _)
utf8_decode_from(b, i, acc) ==
  IF i > Len(b) THEN [ok |-> TRUE, s |-> acc]
  ELSE IF b[i] = LEAD
       THEN IF i + 1 <= Len(b) /\ b[i + 1] = CONT
            THEN utf8_decode_from(b, i + 2, Append(acc, E_ACUTE))
            ELSE [ok |-> FALSE, s |-> <<>>]
       ELSE IF b[i] = CONT
            THEN [ok |-> FALSE, s |-> <<>>]
            ELSE utf8_decode_from(b, i + 1, Append(acc, b[i]))

utf8_decode(b) == utf8_decode_from(b, 1, <<>>)

\* s[:n] for n >= 0
Slice(s, n) == SubSeq(s, 1, IF n < Len(s) THEN n ELSE Len(s))

\* ''.join(chunks)
RECURSIVE Join(_)
Join(cs) == IF cs = <<>> THEN <<>> ELSE Head(cs) \o Join(Tail(cs))

\* ------------------------------------------------------------- JSON values
JNull == [t |-> "null"]
JBool(b) == [t |-> "bool", b |-> b]
JNum(n) == [t |-> "num", n |-> n]
JStr(s) == [t |-> "str", s |-> s]
JArr(items) == [t |-> "arr", items |-> items]
\* kv is a sequence of <<key, value>> pairs, key a sequence of characters.
JObj(kv) == [t |-> "obj", kv |-> kv]

IsWs(c) == c \in {" ", "\n"}

ParseFail == [ok |-> FALSE, v |-> JNull, i |-> 0]
ParseOk(v, i) == [ok |-> TRUE, v |-> v, i |-> i]

RECURSIVE SkipWs(_, _)
SkipWs(t, i) == IF i <= Len(t) /\ IsWs(t[i]) THEN SkipWs(t, i + 1) ELSE i

\* The characters of a string literal after its opening quote.
RECURSIVE ParseString(_, _, _)
ParseString(t, i, acc) ==
  IF i > Len(t) THEN ParseFail
  ELSE IF t[i] = QUOTE THEN ParseOk(JStr(acc), i + 1)
  ELSE IF t[i] = NUL THEN ParseFail
  ELSE ParseString(t, i + 1, Append(acc, t[i]))

RECURSIVE ParseValue(_, _), ParseElements(_, _, _), ParseMembers(_, _, _)

ParseValue(t, i0) ==
  LET i == SkipWs(t, i0) IN
  IF i > Len(t) THEN ParseFail
  ELSE CASE t[i] = "{" ->
              LET j == SkipWs(t, i + 1) IN
              IF j <= Len(t) /\ t[j] = "}" THEN ParseOk(JObj(<<>>), j + 1)
              ELSE ParseMembers(t, j, <<>>)
         [] t[i] = "[" ->
              LET j == SkipWs(t, i + 1) IN
              IF j <= Len(t) /\ t[j] = "]" THEN ParseOk(JArr(<<>>), j + 1)
              ELSE ParseElements(t, j, <<>>)
         [] t[i] = QUOTE -> ParseString(t, i + 1, <<>>)
         [] t[i] = "null" -> ParseOk(JNull, i + 1)
         [] t[i] = "true" -> ParseOk(JBool(TRUE), i + 1)
         [] t[i] = "false" -> ParseOk(JBool(FALSE), i + 1)
         [] t[i] = "5" -> ParseOk(JNum(5), i + 1)
         [] OTHER -> ParseFail

ParseElements(t, i, acc) ==
  LET r == ParseValue(t, i) IN
  IF ~r.ok THEN ParseFail
  ELSE LET j == SkipWs(t, r.i) IN
       IF j > Len(t) THEN ParseFail
       ELSE IF t[j] = "," THEN ParseElements(t, j + 1, Append(acc, r.v))
       ELSE IF t[j] = "]" THEN ParseOk(JArr(Append(acc, r.v)), j + 1)
       ELSE ParseFail

ParseMembers(t, i0, acc) ==
  LET i == SkipWs(t, i0) IN
  IF i > Len(t) \/ t[i] # QUOTE THEN ParseFail
  ELSE LET k == ParseString(t, i + 1, <<>>) IN
       IF ~k.ok THEN ParseFail
       ELSE LET c == SkipWs(t, k.i) IN
            IF c > Len(t) \/ t[c] # ":" THEN ParseFail
            ELSE LET r == ParseValue(t, c + 1) IN
                 IF ~r.ok THEN ParseFail
                 ELSE LET j == SkipWs(t, r.i)
                          kv == Append(acc, <<k.v.s, r.v>>)
                      IN IF j > Len(t) THEN ParseFail
                         ELSE IF t[j] = "," THEN ParseMembers(t, j + 1, kv)
                         ELSE IF t[j] = "}" THEN ParseOk(JObj(kv), j + 1)
                         ELSE ParseFail

\* json.loads(text): ok = FALSE stands for json.JSONDecodeError.
json_loads(text) ==
  LET r == ParseValue(text, 1) IN
  IF r.ok /\ SkipWs(text, r.i) = Len(text) + 1
  THEN [ok |-> TRUE, v |-> r.v]
  ELSE [ok |-> FALSE, v |-> JNull]

\* ---------------------------------------------------------- Python values
\* None is modelled by JNull (json.loads maps null to None).
IsDict(v) == v.t = "obj"

\* dict.get(key, default); a repeated key keeps its last value.
dict_get(d, key, default) ==
  LET hits == {k \in 1..Len(d.kv) : d.kv[k][1] = key} IN
  IF hits = {} THEN default
  ELSE d.kv[CHOOSE k \in hits : \A h \in hits : h <= k][2]

\* iter(v): the items a for loop visits; ok = FALSE stands for TypeError.
RECURSIVE Singletons(_)
Singletons(s) ==
  IF s = <<>> THEN <<>> ELSE <<JStr(<<Head(s)>>)>> \o Singletons(Tail(s))

Keys(kv) == [k \in 1..Len(kv) |-> JStr(kv[k][1])]

Iter(v) ==
  CASE v.t = "arr" -> [ok |-> TRUE, items |-> v.items]
    [] v.t = "obj" -> [ok |-> TRUE, items |-> Keys(v.kv)]
    [] v.t = "str" -> [ok |-> TRUE, items |-> Singletons(v.s)]
    [] OTHER -> [ok |-> FALSE, items |-> <<>>]

\* bool(v) that is false for None only.
Truthy_not_none(v) == v.t # "null"

\* bool(v)
Truthy(v) ==
  CASE v.t = "null" -> FALSE
    [] v.t = "bool" -> v.b
    [] v.t = "num" -> v.n # 0
    [] v.t = "str" -> v.s # <<>>
    [] v.t = "arr" -> v.items # <<>>
    [] v.t = "obj" -> v.kv # <<>>

\* ---------------------------------------------------------------- handlers
\* generate_response that never adds the message.
generate_response_bare(success, message) == [success |-> success]

\* generate_response that adds the message whatever it is.
generate_response_always(success, message) ==
  [success |-> success, message |-> message]

\* The empty string stands for both falsy messages, None and ''.
generate_response(success, message) ==
  IF message # ""
  THEN [success |-> success, message |-> message]
  ELSE [success |-> success]

initialize == generate_response(TRUE, "Plugin initialized successfully")

shutdown == generate_response(TRUE, "Plugin shutdown successfully")

\* How a handler call ends.  io is the set of calls it made outside this
\* program: "screenshot" (pyautogui.screenshot) and "post" (requests.post).
Returns(r, cfg, n, io) ==
  [kind |-> "return", response |-> r, config |-> cfg, loads |-> n, io |-> io]
Raises(e, cfg, n, io) ==
  [kind |-> "raise", exc |-> e, response |-> [success |-> FALSE],
   config |-> cfg, loads |-> n, io |-> io]

\* What load_config finds when it reads the configuration file:
\* "key": an object with REPLICATE_KEY; "empty": no file, an object without
\* the key, or unreadable text (load_config then returns {}).  The file is
\* taken to hold an object, as its documented format says.
ConfigFiles == {"key", "empty"}

load_config(file) == file

\* The outcomes of the calls describe_screen makes outside this program.
\*   shot: pyautogui.screenshot() and the PNG encoding
\*   post: requests.post
\*   body: response.json() and what it returns; "badjson_req" is the
\*         requests.JSONDecodeError of requests >= 2.27 (a RequestException),
\*         "badjson_val" the ValueError older versions raise
Worlds ==
  [file : ConfigFiles,
   shot : {"ok", "raise"},
   post : {"ok", "RequestException"},
   body : {"output", "output_empty", "no_output", "badjson_req", "badjson_val"}]

\* f"{res}" for the 'output' values of the model.
OutputText(body) == IF body = "output" THEN "A desktop with a terminal" ELSE ""

\* The test of line 161 that always asks for a reload.
key_is_missing_always(cfg) == TRUE

\* config.get('REPLICATE_KEY') is None
key_is_missing(cfg) == cfg # "key"

describe_screen(params, cfg, n, w) ==
  IF ~IsDict(params) THEN Raises("AttributeError", cfg, n, {})
  ELSE
  LET prompt == dict_get(params, <<"prompt">>, JNull) IN
  IF ~Truthy(prompt)
  THEN Returns(generate_response(FALSE, "Missing required parameter: prompt"), cfg, n, {})
  ELSE
  LET reload == key_is_missing(cfg)
      cfg2 == IF reload THEN load_config(w.file) ELSE cfg
      n2 == IF reload /\ n < MaxLoads THEN n + 1 ELSE n
      shot == {"screenshot"}
      sent == {"screenshot", "post"}
  IN
  IF w.shot = "raise" THEN Raises("OSError", cfg2, n2, shot)
  ELSE IF w.post = "RequestException"
       THEN Returns(generate_response(FALSE, "Failed to check Screen Description"),
                    cfg2, n2, sent)
  ELSE CASE w.body = "badjson_req" ->
              Returns(generate_response(FALSE, "Failed to check Screen Description"),
                      cfg2, n2, sent)
         [] w.body = "badjson_val" -> Raises("ValueError", cfg2, n2, sent)
         [] w.body = "no_output" -> Raises("KeyError", cfg2, n2, sent)
         [] OTHER -> Returns(generate_response(TRUE, OutputText(w.body)), cfg2, n2, sent)

\* ------------------------------------------------------------ output frame
\* A frame is a sequence of pieces; their concatenation is the bytes written.
json_dumps(r) ==
  <<"{", "\"success\"", ": ", IF r.success THEN "true" ELSE "false">>
  \o (IF "message" \in DOMAIN r
      THEN <<", ", "\"message\"", ": ", "\"" \o r.message \o "\"">>
      ELSE <<>>)
  \o <<"}">>

\* The frame with a newline after the terminator.
json_message_newline(r) == json_dumps(r) \o <<"<<END>>", "\n">>

\* json_message = json.dumps(response) + '<<END>>'
json_message(r) == json_dumps(r) \o <<"<<END>>">>

RECURSIVE Flat(_)
Flat(pieces) == IF pieces = <<>> THEN "" ELSE Head(pieces) \o Flat(Tail(pieces))

\* ------------------------------------------------------- the host's input
Lit(c) == <<QUOTE, c, QUOTE>>
Call(func) == <<"{">> \o Lit("func") \o <<":">> \o Lit(func) \o <<"}">>
CallP(func, params) ==
  <<"{">> \o Lit("func") \o <<":">> \o Lit(func) \o <<",">>
  \o Lit("params") \o <<":">> \o params \o <<"}">>
Prompt(c) == <<"{">> \o Lit("prompt") \o <<":">> \o Lit(c) \o <<"}">>
\* {"prompt": "c"}
PromptSp(c) == <<"{">> \o Lit("prompt") \o <<":", " ">> \o Lit(c) \o <<"}">>
\* {"prompt": ""}
NoPrompt == <<"{">> \o Lit("prompt") \o <<":", " ", QUOTE, QUOTE, "}">>
Cmd(calls) == <<"{">> \o Lit("tool_calls") \o <<":">> \o calls \o <<"}">>
List1(a) == <<"[">> \o a \o <<"]">>
List2(a, b) == <<"[">> \o a \o <<",">> \o b \o <<"]">>
List3(a, b, c) == <<"[">> \o a \o <<",">> \o b \o <<",">> \o c \o <<"]">>
RECURSIVE Newlines(_)
Newlines(n) == IF n <= 0 THEN <<>> ELSE <<"\n">> \o Newlines(n - 1)
\* t followed by the fewest newlines (at least one) that make its UTF-8
\* length a multiple of BUFFER_SIZE.
Padded(t) ==
  LET n == Len(utf8_encode(t)) IN
  t \o Newlines(BUFFER_SIZE - (n % BUFFER_SIZE))

\* Well-formed commands.
GoodTexts ==
  { Cmd(List1(CallP("initialize", <<"{", "}">>))),
    Cmd(List1(Call("shutdown"))),
    Cmd(List2(<<"{", "}">>, Call("initialize"))),
    Cmd(List3(Call("bogus"), Call("shutdown"), Call("initialize"))),
    Cmd(List2(CallP("describe_screen", Prompt("p")),
              CallP("describe_screen", Prompt("p")))),
    Cmd(List1(CallP("describe_screen", Prompt(E_ACUTE)))),
    Cmd(List1(CallP("describe_screen", PromptSp(E_ACUTE)))),
    Cmd(List2(Call("describe_screen"), CallP("describe_screen", NoPrompt))),
    Cmd(<<"[", "]">>),
    <<"{", "}">> }

\* Valid JSON that is not a command of the documented shape.
OddTexts ==
  { <<"[", "]">>,
    <<"null">>,
    Cmd(<<"5">>),
    Cmd(Lit("p")),
    Cmd(List2(<<"5">>, Call("initialize"))),
    Cmd(List1(CallP("describe_screen", <<"5">>))) }

\* Text that is not JSON.
BadTexts ==
  { <<"{">> \o Lit("tool_calls"),
    <<"bogus">>,
    <<E_ACUTE>>,
    Lit(E_ACUTE) \o <<"}">> }

HostTexts ==
  GoodTexts \cup OddTexts \cup BadTexts
  \cup {Padded(t) : t \in {Cmd(List1(Call("shutdown"))),
                           Cmd(List1(CallP("describe_screen", Prompt(E_ACUTE)))),
                           <<"[", "]">>}}

\* The byte sequences the host writes to the pipe, one per message; the last
\* one is not valid UTF-8.
HostMessages == {utf8_encode(t) : t \in HostTexts} \cup {<<"{", CONT>>}

\* The messages the host may write while the one before is still being
\* read, that is when the last chunk read filled the buffer exactly.
FollowUps ==
  {utf8_encode(t) : t \in {<<"null">>,
                           Cmd(List1(Call("shutdown"))),
                           Padded(<<"[", "]">>)}}

Min(a, b) == IF a < b THEN a ELSE b

\* ------------------------------------------------------------------- state
VARIABLES
  pc,          \* where main() is: "read", "dispatch", "write", "STOPPED", "FAULT"
  pending,     \* bytes of the host's current message not yet read
  span,        \* host messages the current read cycle has taken bytes from
  cycMsg,      \* the message the current read cycle began with, if it began at its first byte
  chunks,      \* read_command: the list chunks
  sizes,       \* message_bytes.value of each ReadFile of the current read cycle
  received,    \* the bytes those ReadFile calls received, in arrival order
  ev,          \* how the last step of read_command ended, for the properties
  tool_calls,  \* main: the items of the for loop
  idx,         \* main: position of the for loop, 1-based
  response,    \* main: the response about to be written
  stopping,    \* main: in the 'shutdown' branch
  out,         \* the WriteFile calls made since read_command was last called
  results,     \* the responses the handlers returned since then
  config,      \* the global config
  loads,       \* load_config calls made since read_command was last called
  io,          \* calls outside the program made by the last handler call
  fault,       \* the exception that left main(), "" if none
  closed       \* the host closed the input pipe: every ReadFile fails

vars == <<pc, pending, span, cycMsg, chunks, sizes, received, ev, tool_calls,
          idx, response, stopping, out, results, config, loads, io, fault,
          closed>>

NoEvent ==
  [outcome |-> "none", text |-> <<>>, sizes |-> <<>>, msg |-> <<>>, bytes |-> <<>>]

RUNNING == pc \in {"read", "dispatch", "write"}

Init ==
  /\ pc = "read"
  /\ pending = <<>>
  /\ span = 0
  /\ cycMsg = <<>>
  /\ chunks = <<>>
  /\ sizes = <<>>
  /\ received = <<>>
  /\ ev = NoEvent
  /\ tool_calls = <<>>
  /\ idx = 0
  /\ response = [success |-> FALSE]
  /\ stopping = FALSE
  /\ out = <<>>
  /\ results = <<>>
  /\ config \in {load_config(f) : f \in ConfigFiles}
  /\ loads = 0
  /\ io = {}
  /\ fault = ""
  /\ closed = FALSE

\* ------------------------------------------------------------ read_command
\* The loop with <= in place of < at line 240.
read_chunk_breaks_on_full(cs, data) ==
  LET n == Len(data)
      buffer == data \o Zeros(BUFFER_SIZE - n)
      d == utf8_decode(buffer)
  IN IF ~d.ok THEN [kind |-> "raise", chunks |-> cs]
     ELSE [kind |-> IF n <= BUFFER_SIZE THEN "break" ELSE "again",
           chunks |-> Append(cs, Slice(d.s, n))]

\* One pass of the while loop after a ReadFile that succeeded with the bytes
\* data: "raise" (UnicodeDecodeError), "again" (loop) or "break".
read_chunk(cs, data) ==
  LET n == Len(data)
      buffer == data \o Zeros(BUFFER_SIZE - n)
      d == utf8_decode(buffer)
  IN IF ~d.ok THEN [kind |-> "raise", chunks |-> cs]
     ELSE [kind |-> IF n < BUFFER_SIZE THEN "break" ELSE "again",
           chunks |-> Append(cs, Slice(d.s, n))]

\* The loop without the return of lines 233-235.
read_failed_goes_on == "again"

\* What the loop does when ReadFile reports failure: "return" (None) or
\* "again".
read_failed == "return"

\* After the loop: the value read_command returns, JNull for None.
read_return(cs) ==
  LET r == json_loads(Join(cs)) IN
  [outcome |-> IF r.ok THEN "command" ELSE "JSONDecodeError",
   v |-> IF r.ok THEN r.v ELSE JNull]

\* -------------------------------------------------------------------- main
\* main() with break in place of continue.
main_none_breaks == "STOPPED"

\* Where main() goes when read_command returned None.
main_none == "read"

\* The default of line 334 as None.
default_tool_calls_none == JNull

\* The default of command.get("tool_calls", []).
default_tool_calls == JArr(<<>>)

\* The default of tool_call.get("params", {}).
default_params == JObj(<<>>)

\* From the value read_command returned up to the first pass of the for loop.
main_top(command) ==
  IF command = JNull
  THEN [pc |-> main_none, items |-> <<>>, fault |-> ""]
  ELSE IF ~IsDict(command)
  THEN [pc |-> "FAULT", items |-> <<>>, fault |-> "main:AttributeError"]
  ELSE LET it == Iter(dict_get(command, <<"tool_calls">>, default_tool_calls)) IN
       IF ~it.ok
       THEN [pc |-> "FAULT", items |-> <<>>, fault |-> "main:TypeError"]
       ELSE [pc |-> IF it.items = <<>> THEN "read" ELSE "dispatch",
             items |-> it.items, fault |-> ""]

\* The if/elif chain of the for loop for one tool call.
route(tool_call, cfg, n, w) ==
  IF ~IsDict(tool_call)
  THEN [kind |-> "raise", exc |-> "main:AttributeError", stop |-> FALSE,
        response |-> [success |-> FALSE], config |-> cfg, loads |-> n, io |-> {}]
  ELSE
  LET func == dict_get(tool_call, <<"func">>, JNull)
      params == dict_get(tool_call, <<"params">>, default_params)
      plain(r, stop) == [kind |-> "return", exc |-> "", stop |-> stop,
                         response |-> r, config |-> cfg, loads |-> n, io |-> {}]
  IN CASE func = JStr(<<"initialize">>) -> plain(initialize, FALSE)
       [] func = JStr(<<"describe_screen">>) ->
            LET d == describe_screen(params, cfg, n, w) IN
            [kind |-> d.kind,
             exc |-> IF d.kind = "raise" THEN "describe_screen:" \o d.exc ELSE "",
             stop |-> FALSE, response |-> d.response,
             config |-> d.config, loads |-> d.loads, io |-> d.io]
       [] func = JStr(<<"shutdown">>) -> plain(shutdown, TRUE)
       [] OTHER -> plain(generate_response(FALSE, "Unknown function call"), FALSE)

\* The outcomes of the WriteFile call.
WriteOutcomes == {"ok", "failed", "raised"}

\* write_response: the WriteFile calls it makes.
write_response(r, wf) == << [frame |-> json_message(r), result |-> wf] >>

\* write_response without its try block.
write_returns_uncaught(wf) == wf # "raised"

\* Whether write_response returns normally when WriteFile ends with wf: the
\* return value of WriteFile is not looked at and the try block catches
\* every Exception.
write_returns(wf) == TRUE

\* The for loop that writes after the last handler call only.
main_handled_batched(i, n) == IF i < n THEN "dispatch" ELSE "write"

\* Where main() goes when a handler returned: to the write_response call of
\* line 345 or 350, whatever the position i of the invocation among n.
main_handled(i, n) == "write"

\* main() without the return of line 346.
main_next_no_return(stop, i, n) == IF i < n THEN "dispatch" ELSE "read"

\* Where main() goes after write_response returned.
main_next(stop, i, n) ==
  IF stop THEN "STOPPED" ELSE IF i < n THEN "dispatch" ELSE "read"

\* ----------------------------------------------------------------- actions
\* The list of line 220 that keeps what the call before left in it.
new_chunks_stale(old) == old

\* chunks = [] at the start of a read_command call, whatever the call
\* before (old) had gathered.
new_chunks(old) == <<>>

\* A call of read_command ends with the list cs and the next one starts.
EndCycle(outcome, text, szs, msg, bytes, cs) ==
  /\ ev' = [outcome |-> outcome, text |-> text, sizes |-> szs, msg |-> msg,
            bytes |-> bytes]
  /\ chunks' = new_chunks(cs)
  /\ sizes' = <<>>
  /\ received' = <<>>
  /\ span' = 0
  /\ cycMsg' = <<>>

\* A call of read_command starts: nothing is left of the command before it.
NoCommand ==
  /\ tool_calls' = <<>>
  /\ idx' = 0
  /\ response' = [success |-> FALSE]
  /\ stopping' = FALSE
  /\ out' = <<>>
  /\ results' = <<>>
  /\ loads' = 0
  /\ io' = {}

\* read_command returned None: main() logs and continues.
ReturnNone ==
  /\ pc' = main_none
  /\ NoCommand
  /\ UNCHANGED <<config, fault>>

\* ReadFile returns failure (lines 233-235).
ReadFileFails ==
  /\ pc = "read"
  /\ \E closes \in BOOLEAN : closed' = (closed \/ closes)
  /\ IF read_failed = "return"
     THEN /\ EndCycle("ReadFile failed", <<>>, sizes, cycMsg, <<>>, chunks)
          /\ ReturnNone
     ELSE /\ ev' = [NoEvent EXCEPT !.outcome = "ReadFile failed"]
          /\ NoCommand
          /\ UNCHANGED <<pc, chunks, sizes, received, span, cycMsg, config, fault>>
  /\ UNCHANGED pending

\* What a ReadFile call may find in the pipe.  The host writes each message
\* with one WriteFile; with nothing pending it may start its next message
\* or make a null write (a read of 0 bytes).
Sources ==
  IF pending # <<>> THEN {pending}
  ELSE {<<>>} \cup (IF sizes = <<>> THEN HostMessages
                   ELSE IF span < MaxSpan THEN FollowUps
                   ELSE {})

\* ReadFile succeeds on src (lines 223-253 and 329-335): it takes all of it
\* up to BUFFER_SIZE bytes.
ReadChunkOf(src) ==
  LET n == Min(BUFFER_SIZE, Len(src))
      data == SubSeq(src, 1, n)
      fresh == pending = <<>> /\ src # <<>>
      r == read_chunk(chunks, data)
      szs == Append(sizes, n)
      got == received \o data
      msg == IF sizes # <<>> THEN cycMsg ELSE IF fresh THEN src ELSE <<>>
      ret == read_return(r.chunks)
      top == main_top(ret.v)
  IN
  /\ pending' = SubSeq(src, n + 1, Len(src))
  /\ closed' = closed
  /\ CASE r.kind = "raise" ->
            /\ EndCycle("UnicodeDecodeError", <<>>, szs, msg, got, r.chunks)
            /\ ReturnNone
       [] r.kind = "again" ->
            /\ ev' = [NoEvent EXCEPT !.outcome = "again"]
            /\ chunks' = r.chunks
            /\ sizes' = szs
            /\ received' = got
            /\ span' = IF fresh THEN span + 1 ELSE span
            /\ cycMsg' = msg
            /\ NoCommand
            /\ UNCHANGED <<pc, config, fault>>
       [] r.kind = "break" /\ ret.v = JNull ->
            /\ EndCycle(IF ret.outcome = "command" THEN "null" ELSE ret.outcome,
                        Join(r.chunks), szs, msg, got, r.chunks)
            /\ ReturnNone
       [] OTHER ->
            /\ EndCycle("command", Join(r.chunks), szs, msg, got, r.chunks)
            /\ pc' = top.pc
            /\ fault' = top.fault
            /\ tool_calls' = top.items
            /\ idx' = IF top.pc = "dispatch" THEN 1 ELSE 0
            /\ response' = [success |-> FALSE]
            /\ stopping' = FALSE
            /\ out' = <<>>
            /\ results' = <<>>
            /\ loads' = 0
            /\ io' = {}
            /\ UNCHANGED config

ReadChunk ==
  /\ pc = "read"
  /\ ~closed
  /\ \E src \in Sources : ReadChunkOf(src)

\* One pass of the for loop up to the handler's return (lines 336-348), the
\* calls the handler makes outside the program ending as w says.
DispatchIn(w) ==
  LET r == route(tool_calls[idx], config, loads, w) IN
  /\ config' = r.config
  /\ loads' = r.loads
  /\ io' = r.io
  /\ IF r.kind = "raise"
     THEN /\ pc' = "FAULT"
          /\ fault' = r.exc
          /\ UNCHANGED <<response, stopping, results, idx>>
     ELSE /\ pc' = main_handled(idx, Len(tool_calls))
          /\ idx' = IF pc' = "dispatch" THEN idx + 1 ELSE idx
          /\ response' = r.response
          /\ stopping' = r.stop
          /\ results' = Append(results, r.response)
          /\ UNCHANGED fault
  /\ UNCHANGED <<pending, span, cycMsg, chunks, sizes, received, ev, tool_calls,
                 out, closed>>

Dispatch ==
  /\ pc = "dispatch"
  /\ \E w \in Worlds : DispatchIn(w)

\* write_response(response) and what follows it (lines 345-346 and 350).
Write ==
  /\ pc = "write"
  /\ \E wf \in WriteOutcomes :
       /\ out' = out \o write_response(response, wf)
       /\ IF write_returns(wf)
          THEN /\ pc' = main_next(stopping, idx, Len(tool_calls))
               /\ fault' = fault
          ELSE /\ pc' = "FAULT"
               /\ fault' = "write_response:OSError"
  /\ idx' = IF pc' = "dispatch" THEN idx + 1 ELSE idx
  /\ UNCHANGED <<pending, span, cycMsg, chunks, sizes, received, ev, tool_calls,
                 response, stopping, results, config, loads, io, closed>>

Next == ReadFileFails \/ ReadChunk \/ Dispatch \/ Write

Spec == Init /\ [][Next]_vars

TypeOK ==
  /\ pc \in {"read", "dispatch", "write", "STOPPED", "FAULT"}
  /\ Len(pending) >= 0
  /\ idx \in 0..Len(tool_calls)
  /\ Len(received) <= BUFFER_SIZE * Len(sizes)
  /\ io \subseteq {"screenshot", "post"}
  /\ loads \in 0..MaxLoads

\* ------------------------------------------------------------- properties
\* The command read_command returned last.
Command == json_loads(ev.text).v

FuncOf(tool_call) == dict_get(tool_call, <<"func">>, JNull)
IsCall(tool_call, name) == IsDict(tool_call) /\ FuncOf(tool_call) = JStr(<<name>>)
Known == {"initialize", "describe_screen", "shutdown"}
IsUnknownCall(tool_call) ==
  IsDict(tool_call) /\ \A name \in Known : FuncOf(tool_call) # JStr(<<name>>)

\* A Command of the documented shape: an object whose tool_calls, if any, is
\* a list of objects whose params, if any, is an object.
IsInvocation(v) == IsDict(v) /\ IsDict(dict_get(v, <<"params">>, JObj(<<>>)))
WellFormed(c) ==
  /\ IsDict(c)
  /\ LET tc == dict_get(c, <<"tool_calls">>, JArr(<<>>)) IN
     /\ tc.t = "arr"
     /\ \A i \in 1..Len(tc.items) : IsInvocation(tc.items[i])

Shutdowns(items) == {i \in 1..Len(items) : IsCall(items[i], "shutdown")}
\* The writes a list of invocations is due: all of them, or those up to the
\* first 'shutdown'.
Due(items) ==
  IF Shutdowns(items) = {} THEN Len(items)
  ELSE CHOOSE k \in Shutdowns(items) : \A j \in Shutdowns(items) : k <= j

\* The frame carries the response {success, message}, whatever the spacing.
Carries(frame, success, message) ==
  /\ Len(frame) = 10
  /\ frame[2] = "\"success\""
  /\ frame[4] = (IF success THEN "true" ELSE "false")
  /\ frame[6] = "\"message\""
  /\ frame[8] = "\"" \o message \o "\""

CarriesResponse(frame, r) ==
  IF "message" \in DOMAIN r THEN Carries(frame, r.success, r.message)
  ELSE /\ Len(frame) = 6
       /\ frame[2] = "\"success\""
       /\ frame[4] = (IF r.success THEN "true" ELSE "false")

\* main() is done with the command it read last.
DoneWithCommand == pc \in {"read", "STOPPED", "FAULT"}

\* C1: a well-formed Command with N invocations gets exactly N writes, the
\* i-th carrying the response of the i-th invocation, or, with a 'shutdown'
\* at position k, exactly k writes.
C1_OneWritePerInvocation ==
  (ev.outcome = "command" /\ WellFormed(Command)) =>
    /\ Len(out) <= Due(tool_calls)
    /\ Len(out) <= Len(results)
    /\ \A i \in 1..Len(out) : CarriesResponse(out[i].frame, results[i])
    /\ DoneWithCommand => Len(out) = Due(tool_calls)

\* C3: no fault propagates out of main(): the process is never in a state
\* other than RUNNING or STOPPED.
C3_NoFaultLeavesMain == pc # "FAULT"

\* C4: describe_screen never raises: a failure of the screenshot, of the
\* HTTP request, of the decoding of the response body or of the lookup of
\* 'output' does not leave main().
C4_DescribeScreenNeverRaises ==
  fault \notin {"describe_screen:OSError", "describe_screen:ValueError",
                "describe_screen:KeyError"}

\* C2: a 'shutdown' invocation gets its response written and then main()
\* returns: STOPPED is entered only by the write of 'Plugin shutdown
\* successfully' for the invocation at idx, nothing after idx was dispatched
\* or written, and no step is taken once STOPPED.
C2_ShutdownStops ==
  /\ [](pc = "STOPPED" =>
          /\ IsCall(tool_calls[idx], "shutdown")
          /\ Len(out) = idx
          /\ Len(results) = idx
          /\ Carries(out[idx].frame, TRUE, "Plugin shutdown successfully"))
  /\ [][(pc = "dispatch" /\ IsCall(tool_calls[idx], "shutdown")) =>
          (pc' = "write" /\ idx' = idx /\ out' = out
           /\ response' = [success |-> TRUE,
                           message |-> "Plugin shutdown successfully"])]_vars
  /\ [][(pc = "write" /\ IsCall(tool_calls[idx], "shutdown")) =>
          (pc' = "STOPPED" /\ Len(out') = Len(out) + 1)]_vars
  /\ [][pc # "STOPPED"]_vars

\* A 'shutdown' followed by another invocation has stopped the process.
C2_Witness == pc = "STOPPED" /\ idx < Len(tool_calls)

\* The text read_command assembled in the read cycle that just ended.
Assembled == ev.outcome \in {"JSONDecodeError", "null", "command"}

\* A call of read_command is about to start and nothing was written or
\* dispatched since the last one started.
BackToRead ==
  /\ pc = "read"
  /\ chunks = <<>>
  /\ sizes = <<>>
  /\ out = <<>>
  /\ results = <<>>
  /\ fault = ""

\* C5: when the assembled text is not valid JSON, read_command returns None,
\* nothing is written for that cycle and main() calls read_command again.
C5_BadJsonIsSkipped ==
  (Assembled /\ ~json_loads(ev.text).ok) =>
    (ev.outcome = "JSONDecodeError" /\ BackToRead)

\* A cycle that read a full chunk and a short one has ended in text that is
\* not JSON.
C5_Witness ==
  /\ Assembled
  /\ ~json_loads(ev.text).ok
  /\ Len(ev.sizes) >= 2
  /\ ev.text # <<>>

\* C6: when ReadFile fails, at the first chunk or at a later one,
\* read_command returns None at once (the chunks read so far are dropped),
\* nothing is written and main() calls read_command again.
C6_FailedReadIsSkipped ==
  ev.outcome = "ReadFile failed" => BackToRead

\* ReadFile has failed after two chunks of the cycle had been read.
C6_Witness ==
  /\ ev.outcome = "ReadFile failed"
  /\ Len(ev.sizes) >= 2
  /\ pc = "read"

\* C7: an invocation whose function name is none of the three known ones
\* (or is missing) gets the response {success: false, message: 'Unknown
\* function call'}, written as such; it raises nothing and the loop goes on
\* with the next invocation.
C7_UnknownFunction ==
  /\ [](\A i \in 1..Len(tool_calls) :
          IsUnknownCall(tool_calls[i]) =>
            /\ i <= Len(results) =>
                 results[i] = [success |-> FALSE,
                               message |-> "Unknown function call"]
            /\ i <= Len(out) =>
                 Carries(out[i].frame, FALSE, "Unknown function call")
            /\ ~(pc = "FAULT" /\ idx = i))
  /\ [][(pc = "dispatch" /\ IsUnknownCall(tool_calls[idx])) =>
          (pc' = "write" /\ ~stopping' /\ idx' = idx)]_vars
  /\ [][(pc = "write" /\ IsUnknownCall(tool_calls[idx])) =>
          /\ Len(out') = Len(out) + 1
          /\ IF idx < Len(tool_calls)
             THEN pc' = "dispatch" /\ idx' = idx + 1
             ELSE pc' = "read"]_vars

\* The response to an invocation without 'func' was written and the loop is
\* at the invocation after it.
C7_Witness ==
  /\ pc = "dispatch"
  /\ idx = 2
  /\ IsUnknownCall(tool_calls[1])
  /\ FuncOf(tool_calls[1]) = JNull
  /\ Len(out) = 1

Last(q) == q[Len(q)]
IsPrefix(a, b) == Len(a) <= Len(b) /\ SubSeq(b, 1, Len(a)) = a

\* The read cycle that just ended began at the first byte of a message of
\* k * BUFFER_SIZE bytes (k >= 1), took it in as k full chunks and ended
\* with the read after them.
ExactMultipleRead ==
  /\ Assembled
  /\ ev.msg # <<>>
  /\ Len(ev.msg) % BUFFER_SIZE = 0
  /\ Len(ev.sizes) = Len(ev.msg) \div BUFFER_SIZE + 1

\* As ExactMultipleRead, with any number of reads after the k full chunks.
ExactMultipleTaken ==
  /\ Assembled
  /\ ev.msg # <<>>
  /\ Len(ev.msg) % BUFFER_SIZE = 0
  /\ Len(ev.sizes) > Len(ev.msg) \div BUFFER_SIZE

\* A read cycle that assembled its text ended at its first short chunk.
EndsAtFirstShortChunk ==
  Assembled =>
    /\ ev.sizes # <<>>
    /\ Last(ev.sizes) < BUFFER_SIZE
    /\ \A i \in 1..(Len(ev.sizes) - 1) : ev.sizes[i] = BUFFER_SIZE

\* C8 as stated: a read cycle ends at the first chunk shorter than
\* BUFFER_SIZE, and a message of k * BUFFER_SIZE bytes is returned after one
\* more read of fewer than BUFFER_SIZE bytes, the text being exactly that
\* message.
C8_ExactMultipleGivesTheMessage ==
  /\ EndsAtFirstShortChunk
  /\ ExactMultipleRead => ev.text = utf8_decode(ev.msg).s

\* C8 as amended: a read cycle hands text to the JSON parser at the first
\* chunk shorter than BUFFER_SIZE and never earlier; after a chunk of
\* exactly BUFFER_SIZE bytes the loop reads again unless that chunk alone is
\* not valid UTF-8; a message of k * BUFFER_SIZE bytes is parsed only after
\* at least one more read, and the text is then that message followed by
\* what the later reads brought: it is exactly the message if and only if
\* the first read after the message was empty.
C8_ExactMultipleNeedsEmptyRead ==
  /\ EndsAtFirstShortChunk
  /\ (sizes # <<>> =>
        pc = "read" /\ \A i \in 1..Len(sizes) : sizes[i] = BUFFER_SIZE)
  /\ ((ev.sizes # <<>> /\ Last(ev.sizes) = BUFFER_SIZE /\ ev.outcome # "ReadFile failed")
        => ev.outcome = "UnicodeDecodeError")
  /\ ((/\ Assembled
        /\ ev.msg # <<>>
        /\ Len(ev.msg) % BUFFER_SIZE = 0
        /\ utf8_decode(ev.msg).ok
        /\ IsPrefix(utf8_decode(ev.msg).s, ev.text))
        => Len(ev.sizes) >= Len(ev.msg) \div BUFFER_SIZE + 1)
  /\ (ExactMultipleTaken =>
        /\ utf8_decode(ev.msg).ok
        /\ IsPrefix(utf8_decode(ev.msg).s, ev.text)
        /\ (ev.text = utf8_decode(ev.msg).s)
             <=> (ev.sizes[Len(ev.msg) \div BUFFER_SIZE + 1] = 0))

\* A command of k * BUFFER_SIZE bytes was returned after an empty read.
C8_Witness ==
  /\ ExactMultipleRead
  /\ Last(ev.sizes) = 0
  /\ ev.outcome = "command"
  /\ pc = "dispatch"

\* C9: a failed output write does not end the process: write_response
\* returns, and main() goes on with the next invocation, with the next
\* read_command after the last one, or to STOPPED after 'shutdown'.
C9_WriteFailureIsNotFatal ==
  /\ [](fault # "write_response:OSError")
  /\ [][(pc = "write" /\ Len(out') > Len(out) /\ Last(out').result # "ok") =>
          /\ fault' = ""
          /\ pc' = (IF IsCall(tool_calls[idx], "shutdown") THEN "STOPPED"
                    ELSE IF idx < Len(tool_calls) THEN "dispatch" ELSE "read")
          /\ (pc' = "dispatch" => idx' = idx + 1)]_vars

\* The write raised and the loop is at the next invocation.
C9_Witness ==
  /\ out # <<>>
  /\ Last(out).result = "raised"
  /\ pc = "dispatch"
  /\ idx = Len(out) + 1

\* C10: write_response makes one WriteFile call, whose bytes are the JSON
\* object of the response followed at once by <<END>>, with nothing after.
C10_FrameIsJsonThenEnd ==
  /\ [](/\ Len(out) = Len(results) - (IF pc = "write" THEN 1 ELSE 0)
        /\ \A i \in 1..Len(out) :
             LET f == out[i].frame IN
             /\ CarriesResponse(f, results[i])
             /\ f[1] = "{"
             /\ f[Len(f) - 1] = "}"
             /\ f[Len(f)] = "<<END>>"
             /\ \A k \in 1..(Len(f) - 1) : f[k] \notin {"<<END>>", "\n"})
  /\ [][pc = "write" => Len(out') = Len(out) + 1]_vars

\* A response with a message and one without have been written.
C10_Witness ==
  /\ Len(out) = 2
  /\ Len(out[1].frame) = 6
  /\ Len(out[2].frame) = 10

\* {"tool_calls":[{"func":"initialize","params":{}}]}
InitializeInput == Cmd(List1(CallP("initialize", <<"{", "}">>)))

\* C11: for the input {"tool_calls":[{"func":"initialize","params":{}}]} the
\* bytes written are exactly
\* {"success":true,"message":"Plugin initialized successfully"}<<END>>, with
\* no space after ':' or ',', in one write, and main() stays in its loop.
C11_InitializeFrameIsCompact ==
  (ev.outcome = "command" /\ ev.text = InitializeInput) =>
    /\ RUNNING
    /\ Len(out) <= 1
    /\ pc = "read" => Len(out) = 1
    /\ \A i \in 1..Len(out) :
         Flat(out[i].frame) =
           "{\"success\":true,\"message\":\"Plugin initialized successfully\"}<<END>>"

HasKey(d, key) == \E k \in 1..Len(d.kv) : d.kv[k][1] = key

\* The messages the program hands to generate_response; the empty one is
\* the f"{res}" of an empty 'output'.
Messages ==
  { "Plugin initialized successfully",
    "Plugin shutdown successfully",
    "Unknown function call",
    "Missing required parameter: prompt",
    "Failed to check Screen Description",
    OutputText("output"),
    OutputText("output_empty") }

\* C12: a response built by generate_response always has 'success', and has
\* 'message' if and only if the message is a non-empty string; the same holds
\* of every response a handler returned and of every frame written, where
\* 'message' is never null nor the empty string.
C12_MessageIffNonEmpty ==
  /\ \A s \in BOOLEAN, msg \in Messages :
       LET r == generate_response(s, msg) IN
       /\ "success" \in DOMAIN r
       /\ r.success = s
       /\ ("message" \in DOMAIN r) <=> (msg # "")
       /\ ("message" \in DOMAIN r) => (r.message = msg)
  /\ \A i \in 1..Len(results) :
       /\ "success" \in DOMAIN results[i]
       /\ ("message" \in DOMAIN results[i]) => (results[i].message # "")
  /\ \A i \in 1..Len(out) :
       LET f == out[i].frame IN
       /\ f[2] = "\"success\""
       /\ f[4] \in {"true", "false"}
       /\ (Len(f) = 10) <=> ("message" \in DOMAIN results[i])
       /\ \/ Len(f) = 6
          \/ /\ Len(f) = 10
             /\ f[6] = "\"message\""
             /\ f[8] \notin {"null", "\"\""}
       /\ \A k \in 1..Len(f) : f[k] = "\"message\"" => k = 6

\* describe_screen got an empty 'output' and its response, which has no
\* message, was written.
C12_Witness ==
  /\ Len(out) >= 1
  /\ IsCall(tool_calls[1], "describe_screen")
  /\ results[1] = [success |-> TRUE]
  /\ Len(out[1].frame) = 6

\* A decoded Command object without 'tool_calls' or with an empty list.
NoToolCalls(c) ==
  /\ IsDict(c)
  /\ \/ ~HasKey(c, <<"tool_calls">>)
     \/ dict_get(c, <<"tool_calls">>, JNull) = JArr(<<>>)

\* C13: a Command object without 'tool_calls', or with an empty list, gets
\* no write and main() calls read_command again; an invocation without
\* 'params' is dispatched with the empty map: it raises nothing in main()
\* and describe_screen answers it as it answers {}.
C13_MissingKeysDefault ==
  /\ (ev.outcome = "command" /\ NoToolCalls(Command)) =>
       (BackToRead /\ tool_calls = <<>>)
  /\ \A i \in 1..Len(tool_calls) :
       (IsDict(tool_calls[i]) /\ ~HasKey(tool_calls[i], <<"params">>)) =>
         /\ ~(pc = "FAULT" /\ idx = i)
         /\ (i <= Len(results) /\ IsCall(tool_calls[i], "describe_screen")) =>
              /\ results[i] = [success |-> FALSE,
                               message |-> "Missing required parameter: prompt"]
              /\ \A cfg \in ConfigFiles, w \in Worlds :
                   results[i] = describe_screen(JObj(<<>>), cfg, 0, w).response

\* The Command {} was read and main() is back at read_command.
C13_Witness ==
  /\ ev.outcome = "command"
  /\ ev.text = <<"{", "}">>
  /\ pc = "read"
  /\ out = <<>>

\* C14: responses are streamed, not batched: the response of invocation i is
\* handed to write_response before invocation i + 1 is dispatched, so at
\* most one invocation has been dispatched without its response written,
\* and only while main() is between the handler's return and the write.
C14_ResultsAreStreamed ==
  /\ Len(results) - Len(out) \in {0, 1}
  /\ (Len(results) = Len(out) + 1) <=> (pc = "write")
  /\ pc = "dispatch" => (Len(results) = idx - 1 /\ Len(out) = idx - 1)
  /\ pc = "write" => (Len(results) = idx /\ Len(out) = idx - 1)

\* The second invocation of a command has returned: the response of the
\* first is written, its own is not yet.
C14_Witness ==
  /\ pc = "write"
  /\ idx = 2
  /\ Len(results) = 2
  /\ Len(out) = 1

\* C15: the text read_command hands to the JSON parser is the bytes its
\* ReadFile calls received, in arrival order, decoded as UTF-8, also when
\* they hold multi-byte characters: no padding of the buffer is in it, no
\* character received is missing from it, and the decoding fails only when
\* the message being read is not UTF-8.
C15_TextIsTheBytesReceived ==
  /\ Assembled =>
       /\ utf8_decode(ev.bytes).ok
       /\ ev.text = utf8_decode(ev.bytes).s
  /\ (ev.outcome = "UnicodeDecodeError" /\ ev.msg # <<>>) =>
       ~utf8_decode(ev.msg).ok

\* The list chunks a call of read_command builds from nothing when its
\* ReadFile calls receive bytes in pieces of the sizes szs.
RECURSIVE ChunksOf(_, _, _)
ChunksOf(bytes, szs, cs) ==
  IF szs = <<>> THEN cs
  ELSE ChunksOf(SubSeq(bytes, Head(szs) + 1, Len(bytes)), Tail(szs),
                read_chunk(cs, SubSeq(bytes, 1, Head(szs))).chunks)

\* C16: each call of read_command starts with an empty list of chunks: the
\* list holds what the ReadFile calls of the current call received and
\* nothing else, and the text handed to the JSON parser is made of the bytes
\* of its own call only, however the calls before ended.
C16_CycleStartsEmpty ==
  /\ Len(chunks) = Len(sizes)
  /\ chunks = ChunksOf(received, sizes, <<>>)
  /\ (pc # "read" \/ sizes = <<>>) => (chunks = <<>> /\ received = <<>>)
  /\ Assembled => ev.text = Join(ChunksOf(ev.bytes, ev.sizes, <<>>))

\* A call of read_command that began in the middle of a message, the call
\* before having ended on a decoding error with bytes still unread, has
\* handed its text to the parser.
C16_Witness ==
  /\ Assembled
  /\ ev.msg = <<>>
  /\ ev.bytes # <<>>
  /\ ev.text # <<>>
  /\ chunks = <<>>

\* The invocation main() is about to dispatch is a describe_screen call with
\* a non-empty prompt.
DescribesWithPrompt ==
  /\ pc = "dispatch"
  /\ IsCall(tool_calls[idx], "describe_screen")
  /\ LET params == dict_get(tool_calls[idx], <<"params">>, JObj(<<>>)) IN
     /\ IsDict(params)
     /\ dict_get(params, <<"prompt">>, JNull) \notin {JNull, JStr(<<>>)}

\* C17 as stated: after startup load_config populates the configuration at
\* most once, however many describe_screen invocations there are.
C17_LoadedAtMostOnce == loads <= 1

\* C17 as amended: after startup the configuration is assigned only by a
\* describe_screen invocation that has a non-empty prompt and finds no
\* REPLICATE_KEY in it; every such invocation calls load_config, so the
\* configuration is loaded again and again while the file lacks the key;
\* once the configuration holds the key it is never assigned again.
C17_LoadedWhileKeyIsMissing ==
  /\ [][(config' # config \/ loads' > loads) =>
          (DescribesWithPrompt /\ config # "key")]_vars
  /\ [][(DescribesWithPrompt /\ config # "key") =>
          /\ loads' = Min(loads + 1, MaxLoads)
          /\ config' \in {load_config(f) : f \in ConfigFiles}]_vars
  /\ [][config = "key" => config' = "key"]_vars

\* Two describe_screen invocations of one command have each called
\* load_config, the second one finding the key.
C17_Witness ==
  /\ loads = 2
  /\ idx = 2
  /\ config = "key"
  /\ pc = "write"

\* C18: once the input handle fails for good (closed: every ReadFile from
\* now on fails), main() is never STOPPED and never left by a fault, writes
\* no frame and dispatches nothing: it is at read_command, whose last call
\* returned None at its first ReadFile or at the failing one, and the next
\* call can always be made and ends the same way.
C18_ClosedInputSpins ==
  /\ [](closed =>
          /\ pc = "read"
          /\ ev.outcome = "ReadFile failed"
          /\ ev.text = <<>>
          /\ out = <<>>
          /\ results = <<>>
          /\ chunks = <<>>
          /\ fault = ""
          /\ ENABLED ReadFileFails)
  /\ [][closed =>
          /\ closed'
          /\ pc' = "read"
          /\ out' = <<>>
          /\ ev'.outcome = "ReadFile failed"
          /\ ev'.sizes = <<>>]_vars

\* With the input closed a call of read_command has failed at its first
\* ReadFile, bytes of a message being still unread.
C18_Witness ==
  /\ closed
  /\ pc = "read"
  /\ ev.outcome = "ReadFile failed"
  /\ ev.sizes = <<>>
  /\ ev.msg = <<>>
  /\ pending # <<>>

\* ------------------------------------------------------------------ liveness
\* The host's message {"tool_calls":[{"func":"shutdown"}]}, which ends in a
\* chunk shorter than BUFFER_SIZE.
ShutdownMessage == utf8_encode(Cmd(List1(Call("shutdown"))))

\* The host sends the shutdown message and the first ReadFile on it succeeds.
ShutdownArrives ==
  /\ pc = "read"
  /\ ~closed
  /\ pending = <<>>
  /\ ShutdownMessage \in Sources
  /\ ReadChunkOf(ShutdownMessage)

\* A pass of the for loop whose handler call returns.
DispatchReturns ==
  /\ pc = "dispatch"
  /\ \E w \in Worlds :
       /\ (IsCall(tool_calls[idx], "describe_screen") =>
             route(tool_calls[idx], config, loads, w).kind = "return")
       /\ DispatchIn(w)

\* The program when no ReadFile fails and every handler call returns.
LiveNext == ReadChunk \/ DispatchReturns \/ Write

\* ReadChunk can be taken: ENABLED <<ReadChunk>>_vars, since a ReadFile that
\* succeeds always has something to return, be it nothing, and changes the
\* state.
CanRead == pc = "read" /\ ~closed

\* The shutdown message can arrive: ENABLED <<ShutdownArrives>>_vars.
CanArrive == CanRead /\ pending = <<>> /\ ShutdownMessage \in Sources

\* Weak fairness of ReadChunk: a ReadFile call that can succeed returns.
ReadIsFair == []<>(~CanRead) \/ []<><<ReadChunk>>_vars

\* Strong fairness of ShutdownArrives: the host sends the shutdown message,
\* again and again for as long as the program takes messages.
ShutdownIsSent == <>[](~CanArrive) \/ []<><<ShutdownArrives>>_vars

\* main() runs whenever it can: its steps are those of one thread, each of
\* which ends.
LiveSpec ==
  /\ Init
  /\ [][LiveNext]_vars
  /\ WF_vars(DispatchReturns)
  /\ WF_vars(Write)
  /\ ReadIsFair
  /\ ShutdownIsSent

\* main() is at a handler call that raises however the calls it makes
\* outside the program end.
HandlerCannotReturn ==
  /\ pc = "dispatch"
  /\ IsCall(tool_calls[idx], "describe_screen")
  /\ \A w \in Worlds : route(tool_calls[idx], config, loads, w).kind = "raise"

\* C19: if no read fails, every handler call returns and the host sends a
\* well-formed command with a 'shutdown' invocation, as a message ending in
\* a short chunk, then the shutdown response is written and main() returns,
\* whatever messages came before.
C19_ShutdownIsReached ==
  <>(\/ /\ pc = "STOPPED"
        /\ out # <<>>
        /\ Carries(Last(out).frame, TRUE, "Plugin shutdown successfully")
     \/ HandlerCannotReturn)

\* The invocation is a describe_screen call whose params have no 'prompt',
\* or an empty one.
LacksPrompt(tool_call) ==
  /\ IsCall(tool_call, "describe_screen")
  /\ LET params == dict_get(tool_call, <<"params">>, JObj(<<>>)) IN
     /\ IsDict(params)
     /\ \/ ~HasKey(params, <<"prompt">>)
        \/ dict_get(params, <<"prompt">>, JNull) = JStr(<<>>)

\* C20: a describe_screen invocation without a prompt, or with an empty one,
\* returns {success: false, message: 'Missing required parameter: prompt'}
\* and changes nothing else: the configuration is not loaded again, no
\* screenshot is taken, no HTTP request is sent, nothing is written before
\* the response is.
C20_MissingPromptChangesNothing ==
  [][(pc = "dispatch" /\ LacksPrompt(tool_calls[idx])) =>
       /\ pc' = "write"
       /\ response' = [success |-> FALSE,
                       message |-> "Missing required parameter: prompt"]
       /\ results' = Append(results, response')
       /\ config' = config
       /\ loads' = loads
       /\ io' = {}
       /\ ~stopping'
       /\ fault' = ""
       /\ UNCHANGED <<out, idx, tool_calls, pending, chunks, sizes, received,
                      closed>>]_vars

\* The response to a describe_screen invocation with the prompt "" is about
\* to be written.
C20_Witness ==
  /\ pc = "write"
  /\ LacksPrompt(tool_calls[idx])
  /\ HasKey(dict_get(tool_calls[idx], <<"params">>, JObj(<<>>)), <<"prompt">>)
  /\ response = [success |-> FALSE,
                 message |-> "Missing required parameter: prompt"]
  /\ io = {}

====
